---- MODULE Spec2Model ----
(* Model of src/main.py: the POST /generate handler of the loyalty financial  *)
(* model service, its prompt builder, its completion call and its response    *)
(* parser.  Text that the parser slices is a sequence of one-character        *)
(* strings; prompt text is a sequence of string pieces in concatenation order.*)
EXTENDS Integers, Sequences, FiniteSets, TLC

(* ------------------------------------------------------------------------ *)
(* Bounds                                                                     *)
(* ------------------------------------------------------------------------ *)

\* Largest number of chunks the provider's completion text is made of.
MaxChunks == 4

(* ------------------------------------------------------------------------ *)
(* Python str primitives used by the parser                                   *)
(* ------------------------------------------------------------------------ *)

\* Optional[T]: None is the empty tuple, a present value is a 1-tuple.
None == <<>>

Some(x) == <<x>>

\* Python truthiness of an Optional[str] whose value is a string piece.
Truthy(opt) == opt # None /\ opt[1] # ""

Min(a, b) == IF a < b THEN a ELSE b

Max(a, b) == IF a > b THEN a ELSE b

\* s[lo:hi] with 0-based bounds already normalised, as a TLA+ sequence.
Sub(s, lo, hi) == IF lo >= hi THEN <<>> ELSE SubSeq(s, lo + 1, hi)

\* Normalisation of one slice bound: negative counts from the end, then clamp.
PyIndex(s, i) == IF i < 0 THEN Max(Len(s) + i, 0) ELSE Min(i, Len(s))

\* Python s[i:j].
PySlice(s, i, j) == Sub(s, PyIndex(s, i), PyIndex(s, j))

\* Whether pat occurs in s at 0-based offset i.
MatchAt(s, pat, i) ==
    /\ i >= 0
    /\ i + Len(pat) <= Len(s)
    /\ \A k \in 1..Len(pat) : s[i + k] = pat[k]

\* Python s.find(pat): the lowest 0-based offset of pat in s, or -1.
PyFind(s, pat) ==
    LET hits == {i \in 0..Len(s) : MatchAt(s, pat, i)}
    IN  IF hits = {} THEN -1 ELSE CHOOSE i \in hits : \A j \in hits : i <= j

\* Characters str.strip() removes (those that occur in the modelled texts).
PyWhitespace == {" ", "\n", "\t", "\r"}

\* Python s.strip().
PyStrip(s) ==
    LET keep == {i \in 1..Len(s) : s[i] \notin PyWhitespace}
    IN  IF keep = {} THEN <<>>
        ELSE LET first == CHOOSE i \in keep : \A j \in keep : i <= j
                 last  == CHOOSE i \in keep : \A j \in keep : i >= j
             IN  SubSeq(s, first, last)

(* ------------------------------------------------------------------------ *)
(* json.loads                                                                 *)
(* ------------------------------------------------------------------------ *)

\* Parsed JSON values.
JNum(n) == [k |-> "num", v |-> n]

JStr(s) == [k |-> "str", v |-> s]

JLit(name) == [k |-> "lit", v |-> name]

JArr(items) == [k |-> "arr", v |-> items]

JObj(map) == [k |-> "obj", v |-> map]

\* dict[key] = val on a dict kept as a function from keys to values.
DictPut(map, key, val) ==
    [x \in (DOMAIN map) \cup {key} |-> IF x = key THEN val ELSE map[x]]

EmptyDict == [x \in {} |-> 0]

\* Result of a scan: a value and the offset after it, or the decoder's error.
ScanOk(val, pos) == [ok |-> TRUE, val |-> val, pos |-> pos, err |-> ""]

ScanErr(msg, pos) == [ok |-> FALSE, val |-> JLit("None"), pos |-> pos, err |-> msg]

\* Whitespace the JSON decoder skips between tokens.
JsonWhitespace == {" ", "\t", "\n", "\r"}

Digits == <<"0", "1", "2", "3", "4", "5", "6", "7", "8", "9">>

IsDigit(c) == \E d \in 1..10 : Digits[d] = c

DigitValue(c) == (CHOOSE d \in 1..10 : Digits[d] = c) - 1

\* Offset of the first non-whitespace character at or after 0-based offset i.
RECURSIVE SkipWs(_, _)
SkipWs(s, i) ==
    IF i < Len(s) /\ s[i + 1] \in JsonWhitespace THEN SkipWs(s, i + 1) ELSE i

\* Offset after the run of digits starting at i.
RECURSIVE DigitsEnd(_, _)
DigitsEnd(s, i) ==
    IF i < Len(s) /\ IsDigit(s[i + 1]) THEN DigitsEnd(s, i + 1) ELSE i

\* Value of the decimal digits s[lo:hi].
RECURSIVE DecValue(_, _, _)
DecValue(s, lo, hi) ==
    IF lo >= hi THEN 0 ELSE DecValue(s, lo, hi - 1) * 10 + DigitValue(s[hi])

\* A number at offset i: -?(0|[1-9][0-9]*), the integer part of the decoder's
\* number pattern.
ScanNumber(s, i) ==
    LET neg   == i < Len(s) /\ s[i + 1] = "-"
        d0    == IF neg THEN i + 1 ELSE i
        stop  == IF d0 < Len(s) /\ s[d0 + 1] = "0" THEN d0 + 1 ELSE DigitsEnd(s, d0)
    IN  IF stop = d0 THEN ScanErr("Expecting value", i)
        ELSE ScanOk(JNum(IF neg THEN 0 - DecValue(s, d0, stop) ELSE DecValue(s, d0, stop)),
                    stop)

\* A string whose opening quote is at offset i - 1; i is the offset after it.
ScanString(s, i) ==
    LET ends == {j \in i..(Len(s) - 1) : s[j + 1] \in {"\"", "\\", "\n", "\t", "\r"}}
    IN  IF ends = {} THEN ScanErr("Unterminated string starting at", i - 1)
        ELSE LET j == CHOOSE x \in ends : \A y \in ends : x <= y
             IN  IF s[j + 1] = "\"" THEN ScanOk(JStr(Sub(s, i, j)), j + 1)
                 ELSE IF s[j + 1] = "\\" THEN ScanErr("Invalid \\escape", j)
                 ELSE ScanErr("Invalid control character at", j)

\* The literals the decoder accepts, in the order it tries them.
JsonLiterals ==
    << <<"n", "u", "l", "l">>, <<"t", "r", "u", "e">>, <<"f", "a", "l", "s", "e">>,
       <<"N", "a", "N">>, <<"I", "n", "f", "i", "n", "i", "t", "y">>,
       <<"-", "I", "n", "f", "i", "n", "i", "t", "y">> >>

\* The Python value each literal decodes to.
JsonLiteralNames == <<"None", "True", "False", "nan", "inf", "-inf">>

ScanLiteral(s, i) ==
    LET hits == {n \in 1..Len(JsonLiterals) : MatchAt(s, JsonLiterals[n], i)}
    IN  IF hits = {} THEN ScanNumber(s, i)
        ELSE LET n == CHOOSE x \in hits : TRUE
             IN  ScanOk(JLit(JsonLiteralNames[n]), i + Len(JsonLiterals[n]))

RECURSIVE ScanValue(_, _)
RECURSIVE ScanMembers(_, _, _)
RECURSIVE ScanItems(_, _, _)

\* scan_once: the value starting exactly at offset i.
ScanValue(s, i) ==
    IF i >= Len(s) THEN ScanErr("Expecting value", i)
    ELSE LET c == s[i + 1]
         IN  IF c = "\"" THEN ScanString(s, i + 1)
             ELSE IF c = "{" THEN
                 LET j == SkipWs(s, i + 1)
                 IN  IF j < Len(s) /\ s[j + 1] = "}" THEN ScanOk(JObj(EmptyDict), j + 1)
                     ELSE ScanMembers(s, j, EmptyDict)
             ELSE IF c = "[" THEN
                 LET j == SkipWs(s, i + 1)
                 IN  IF j < Len(s) /\ s[j + 1] = "]" THEN ScanOk(JArr(<<>>), j + 1)
                     ELSE ScanItems(s, j, <<>>)
             ELSE ScanLiteral(s, i)

\* JSONObject after "{": members from offset i on, map holding those read so far.
ScanMembers(s, i, map) ==
    IF ~(i < Len(s) /\ s[i + 1] = "\"")
    THEN ScanErr("Expecting property name enclosed in double quotes", i)
    ELSE LET key == ScanString(s, i + 1)
         IN  IF ~key.ok THEN key
             ELSE LET c == SkipWs(s, key.pos)
                  IN  IF ~(c < Len(s) /\ s[c + 1] = ":")
                      THEN ScanErr("Expecting ':' delimiter", c)
                      ELSE LET val == ScanValue(s, SkipWs(s, c + 1))
                           IN  IF ~val.ok THEN val
                               ELSE LET m2 == DictPut(map, key.val.v, val.val)
                                        e  == SkipWs(s, val.pos)
                                    IN  IF e < Len(s) /\ s[e + 1] = "}"
                                        THEN ScanOk(JObj(m2), e + 1)
                                        ELSE IF e < Len(s) /\ s[e + 1] = ","
                                        THEN ScanMembers(s, SkipWs(s, e + 1), m2)
                                        ELSE ScanErr("Expecting ',' delimiter", e)

\* JSONArray after "[": items from offset i on, items holding those read so far.
ScanItems(s, i, items) ==
    LET val == ScanValue(s, i)
    IN  IF ~val.ok THEN val
        ELSE LET a2 == Append(items, val.val)
                 e  == SkipWs(s, val.pos)
             IN  IF e < Len(s) /\ s[e + 1] = "]" THEN ScanOk(JArr(a2), e + 1)
                 ELSE IF e < Len(s) /\ s[e + 1] = ","
                 THEN ScanItems(s, SkipWs(s, e + 1), a2)
                 ELSE ScanErr("Expecting ',' delimiter", e)

\* json.loads(s): one value, surrounded by whitespace only.
JsonLoads(s) ==
    LET r == ScanValue(s, SkipWs(s, 0))
    IN  IF ~r.ok THEN r
        ELSE IF SkipWs(s, r.pos) # Len(s) THEN ScanErr("Extra data", SkipWs(s, r.pos))
        ELSE r

(* ------------------------------------------------------------------------ *)
(* Prompt builder                                                             *)
(* ------------------------------------------------------------------------ *)

\* construct_system_prompt(): one fixed piece of text, no substitution
\* (abridged here to its first and last sentence; no operation reads into it).
construct_system_prompt ==
    <<"You are an expert in loyalty program financial modeling and ROI analysis. ... Separate the two parts with [JSON_START] and [JSON_END] markers.">>

\* The literal pieces of the user prompt's f-strings.
PromptHead == "Please create a financial model for "

PromptTail == "'s loyalty program."

DesignClause == "\n\nConsider this program design: "

PreviousClause == "\n\n\nPrevious financial model: "

FeedbackClause == "\n\nPlease refine the model based on this feedback: "

\* Mutant: the design clause is appended without the presence test.
construct_user_prompt_unguarded(company_name, program_design, existing_output, feedback) ==
    LET base == <<PromptHead, company_name, PromptTail>>
        withDesign ==
            base \o <<DesignClause,
                      IF program_design = None THEN "None" ELSE program_design[1]>>
    IN  IF Truthy(existing_output) /\ Truthy(feedback)
        THEN withDesign \o <<PreviousClause, existing_output[1],
                             FeedbackClause, feedback[1], "\n">>
        ELSE withDesign

\* construct_user_prompt: the pieces of the returned string, in order.
construct_user_prompt(company_name, program_design, existing_output, feedback) ==
    LET base == <<PromptHead, company_name, PromptTail>>
        withDesign ==
            IF Truthy(program_design)
            THEN base \o <<DesignClause, program_design[1]>>
            ELSE base
    IN  IF Truthy(existing_output) /\ Truthy(feedback)
        THEN withDesign \o <<PreviousClause, existing_output[1],
                             FeedbackClause, feedback[1], "\n">>
        ELSE withDesign

(* ------------------------------------------------------------------------ *)
(* Response parser                                                            *)
(* ------------------------------------------------------------------------ *)

start_marker == <<"[", "J", "S", "O", "N", "_", "S", "T", "A", "R", "T", "]">>

end_marker == <<"[", "J", "S", "O", "N", "_", "E", "N", "D", "]">>

\* Exceptions: the class, the HTTP status (0 when the class has none) and the
\* message pieces (an HTTPException's detail).
Exception(type, msg) == [type |-> type, status_code |-> 0, msg |-> msg]

HTTPException(status_code, detail) ==
    [type |-> "HTTPException", status_code |-> status_code, msg |-> detail]

\* Mutant: str(e) taken from e.args, which an HTTPException built from
\* keyword arguments leaves empty.
PyStrArgs(e) == IF e.type = "HTTPException" THEN <<>> ELSE e.msg

\* str(e): an HTTPException prints as "<status_code>: <detail>", any other
\* exception as its message.
PyStr(e) ==
    IF e.type = "HTTPException"
    THEN <<ToString(e.status_code), ": ">> \o e.msg
    ELSE e.msg

ParseFailurePrefix == "Failed to parse structured data from response: "

\* Outcome of a call: a returned value or a raised exception.
Returned(val) == [raised |-> FALSE, val |-> val, exc |-> Exception("", <<>>)]

Raised(e) == [raised |-> TRUE, val |-> <<>>, exc |-> e]

\* Mutant: the end marker is searched from after the start marker.
EndSearchAfterStart(text) ==
    Min(Max(PyFind(text, start_marker), 0) + Len(start_marker), Len(text))

\* Offset at which the search for the end marker starts.
EndSearchFrom(text) == 0

\* text.find(end_marker), searched from the start of the whole text.
FindEnd(text) ==
    LET from == EndSearchFrom(text)
        at   == PyFind(Sub(text, from, Len(text)), end_marker)
    IN  IF at < 0 THEN -1 ELSE from + at

\* The text handed to json.loads.
JsonSegment(text) ==
    PyStrip(PySlice(text, PyFind(text, start_marker) + Len(start_marker), FindEnd(text)))

\* extract_json_from_text: the parsed value, or HTTPException(500, ...) for
\* whatever json.loads raised.
extract_json_from_text(text) ==
    LET r == JsonLoads(JsonSegment(text))
    IN  IF r.ok THEN Returned(r.val)
        ELSE Raised(HTTPException(500, <<ParseFailurePrefix, r.err>>))

\* Mutant: the analysis is not stripped.
AnalysisOfNoStrip(full_response) ==
    PySlice(full_response, 0, PyFind(full_response, start_marker))

\* full_response[:full_response.find("[JSON_START]")].strip()
AnalysisOf(full_response) ==
    PyStrip(PySlice(full_response, 0, PyFind(full_response, start_marker)))

\* Mutant: the except clause reports a fixed message.
OuterExceptGeneric(e) == HTTPException(500, <<"Internal server error">>)

\* The except clause of generate_financial_model: any exception raised in the
\* try block, an HTTPException included, becomes HTTPException(500, str(e)).
OuterExcept(e) == HTTPException(500, PyStr(e))

\* Lines 181-187 of generate_financial_model, run on the completion text.
ParseCompletion(full_response) ==
    LET analysis == AnalysisOf(full_response)
        parsed   == extract_json_from_text(full_response)
    IN  IF parsed.raised THEN Raised(OuterExcept(parsed.exc))
        ELSE Returned([analysis |-> analysis, structured_data |-> parsed.val])

(* ------------------------------------------------------------------------ *)
(* Inputs: requests, provider completions, provider errors                    *)
(* ------------------------------------------------------------------------ *)

Companies == {"Acme Corp", "Globex"}

PreviousDatas ==
    {None} \cup {Some([loyalty_program_design |-> d]) :
                    d \in {None, Some("tiered points")}}

CurrentPromptDatas ==
    {None} \cup {Some([existing_generated_output |-> e, user_feedback |-> f]) :
                    e \in {"", "previous model"}, f \in {"", "lower the costs"}}

Requests ==
    [company_name : Companies, previous_data : PreviousDatas,
     current_prompt_data : CurrentPromptDatas]

\* The pieces a completion text is made of.
Chunks == {"START", "END", "PROSE", "OBJ", "ARR"}

ChunkText(c) ==
    CASE c = "START" -> start_marker
      [] c = "END"   -> end_marker
      [] c = "PROSE" -> <<" ", "A", "n", "a", "l", "y", "s", "i", "s", ".", " ">>
      [] c = "OBJ"   -> <<" ", "{", "\"", "a", "\"", ":", " ", "1", "}", "\n">>
      [] c = "ARR"   -> <<"[", "1", ",", " ", "2", "]">>

\* The JSON value a JSON chunk writes down.
ChunkValue(c) ==
    CASE c = "OBJ" -> JObj(<<"a">> :> JNum(1))
      [] c = "ARR" -> JArr(<<JNum(1), JNum(2)>>)

RECURSIVE Flatten(_)
Flatten(cs) == IF cs = <<>> THEN <<>> ELSE ChunkText(Head(cs)) \o Flatten(Tail(cs))

Completions == UNION {[1..n -> Chunks] : n \in 0..MaxChunks}

ProviderErrors ==
    {Exception("APIConnectionError", <<"Connection error.">>),
     Exception("AuthenticationError", <<"Incorrect API key provided">>),
     Exception("RateLimitError", <<"Rate limit reached">>)}

(* ------------------------------------------------------------------------ *)
(* One POST /generate request                                                 *)
(* ------------------------------------------------------------------------ *)

VARIABLES
    pc,               \* where the request is: idle, build, call, parse, respond, done
    request,          \* the FinancialModelRequest
    program_design,   \* locals of generate_model
    existing_output,
    feedback,
    messages,         \* the messages argument of the completion call
    providerCalls,    \* calls of client.chat.completions.create so far
    sent,             \* the chunks of the completion the provider returned
    full_response,    \* response.choices[0].message.content
    providerError,    \* the exception the completion call raised, if it did
    parserRuns,       \* calls of extract_json_from_text so far
    outcome,          \* what generate_financial_model returned or raised
    response          \* the HTTP response

vars ==
    <<pc, request, program_design, existing_output, feedback, messages,
      providerCalls, sent, full_response, providerError, parserRuns, outcome,
      response>>

NoResponse ==
    [status |-> 0, media |-> "none", detail |-> <<>>, generated_output |-> <<>>,
     structured_data |-> JLit("None")]

Init ==
    /\ pc = "idle"
    /\ request = None
    /\ program_design = None
    /\ existing_output = None
    /\ feedback = None
    /\ messages = <<>>
    /\ providerCalls = 0
    /\ sent = <<>>
    /\ full_response = None
    /\ providerError = None
    /\ parserRuns = 0
    /\ outcome = None
    /\ response = NoResponse

\* generate_model, lines 190-200: the request arrives and its optional
\* fields are picked apart.
ReceiveRequest(req) ==
    /\ pc = "idle"
    /\ request' = Some(req)
    /\ program_design' =
           IF req.previous_data # None
           THEN req.previous_data[1].loyalty_program_design
           ELSE None
    /\ existing_output' =
           IF req.current_prompt_data # None
           THEN Some(req.current_prompt_data[1].existing_generated_output)
           ELSE None
    /\ feedback' =
           IF req.current_prompt_data # None
           THEN Some(req.current_prompt_data[1].user_feedback)
           ELSE None
    /\ pc' = "build"
    /\ UNCHANGED <<messages, providerCalls, sent, full_response, providerError,
                   parserRuns, outcome, response>>

\* generate_financial_model, lines 168-176: the arguments of the completion
\* call are evaluated, both prompts built.
BuildPrompts ==
    /\ pc = "build"
    /\ messages' =
           <<[role |-> "system", content |-> construct_system_prompt],
             [role |-> "user",
              content |-> construct_user_prompt(request[1].company_name,
                              program_design, existing_output, feedback)]>>
    /\ pc' = "call"
    /\ UNCHANGED <<request, program_design, existing_output, feedback,
                   providerCalls, sent, full_response, providerError, parserRuns,
                   outcome, response>>

\* Mutant: a failed completion call is tried once more.
AfterProviderErrorRetry == IF providerCalls = 0 THEN "call" ELSE "respond"

\* Where the request goes after the completion call raised.
AfterProviderError == "respond"

\* client.chat.completions.create returns a completion.
ProviderReturns(chunks) ==
    /\ pc = "call"
    /\ providerCalls' = providerCalls + 1
    /\ sent' = chunks
    /\ full_response' = Some(Flatten(chunks))
    /\ pc' = "parse"
    /\ UNCHANGED <<request, program_design, existing_output, feedback, messages,
                   providerError, parserRuns, outcome, response>>

\* client.chat.completions.create raises; the except clause turns the error
\* into HTTPException(500, str(e)).
ProviderRaises(e) ==
    /\ pc = "call"
    /\ providerCalls' = providerCalls + 1
    /\ providerError' = Some(e)
    /\ outcome' = Some(Raised(OuterExcept(e)))
    /\ pc' = AfterProviderError
    /\ UNCHANGED <<request, program_design, existing_output, feedback, messages,
                   sent, full_response, parserRuns, response>>

\* generate_financial_model, lines 181-187: the completion text is split and
\* parsed.
ParseResponse ==
    /\ pc = "parse"
    /\ parserRuns' = parserRuns + 1
    /\ outcome' = Some(ParseCompletion(full_response[1]))
    /\ pc' = "respond"
    /\ UNCHANGED <<request, program_design, existing_output, feedback, messages,
                   providerCalls, sent, full_response, providerError, response>>

\* Mutant: structured_data accepts any JSON value.
IsDictAny(v) == v.k \in {"obj", "arr", "num", "str", "lit"}

\* Validation of FinancialModelResponse.structured_data, declared Dict.
IsDict(v) == v.k = "obj"

\* What the framework sends for the result of generate_model: the detail of
\* an HTTPException as a JSON body; 200 with the response model; or, when
\* building the response model raises a validation error, a plain-text 500.
ResponseFor(o) ==
    IF o.raised
    THEN [NoResponse EXCEPT !.status = o.exc.status_code, !.media = "json",
                            !.detail = o.exc.msg]
    ELSE IF IsDict(o.val.structured_data)
    THEN [NoResponse EXCEPT !.status = 200, !.media = "json",
                            !.generated_output = o.val.analysis,
                            !.structured_data = o.val.structured_data]
    ELSE [NoResponse EXCEPT !.status = 500, !.media = "text",
                            !.detail = <<"Internal Server Error">>]

\* generate_model, lines 203-213.
Respond ==
    /\ pc = "respond"
    /\ response' = ResponseFor(outcome[1])
    /\ pc' = "done"
    /\ UNCHANGED <<request, program_design, existing_output, feedback, messages,
                   providerCalls, sent, full_response, providerError, parserRuns,
                   outcome>>

Next ==
    \/ \E req \in Requests : ReceiveRequest(req)
    \/ BuildPrompts
    \/ \E chunks \in Completions : ProviderReturns(chunks)
    \/ \E e \in ProviderErrors : ProviderRaises(e)
    \/ ParseResponse
    \/ Respond

Spec == Init /\ [][Next]_vars

(* ------------------------------------------------------------------------ *)
(* Properties                                                                 *)
(* ------------------------------------------------------------------------ *)

Range(f) == {f[i] : i \in DOMAIN f}

\* Whether the prompt pieces hold the string s verbatim.
ContainsPiece(pieces, s) == s = "" \/ s \in Range(pieces)

\* The completion text has been split and parsed.
Parsed == parserRuns = 1 /\ outcome # None

\* The user instruction sent to the provider.
UserPrompt == messages[2].content

HasStart == PyFind(full_response[1], start_marker) >= 0

HasEnd == PyFind(full_response[1], end_marker) >= 0

\* The completion is A + [JSON_START] + J + [JSON_END] + T with the start
\* sentinel the i-th chunk, J the single JSON chunk after it, and no sentinel
\* in A.
WellFormedAt(i) ==
    /\ i \in 1..(Len(sent) - 2)
    /\ sent[i] = "START"
    /\ sent[i + 1] \in {"OBJ", "ARR"}
    /\ sent[i + 2] = "END"
    /\ \A k \in 1..(i - 1) : sent[k] \notin {"START", "END"}

\* The analysis portion of a well-formed completion: A, trimmed.
AnalysisPortion(i) == PyStrip(Flatten(SubSeq(sent, 1, i - 1)))

\* C1 as stated: whenever the completion text contains [JSON_START] and no
\* [JSON_END], parsing fails and no structured data is returned.
C1_MissingEndFails ==
    (Parsed /\ HasStart /\ ~HasEnd) => outcome[1].raised

\* C2 as stated: whenever the completion text contains no [JSON_START],
\* the request fails and no (analysis, structured_data) pair is returned.
C2_MissingStartFails ==
    (Parsed /\ ~HasStart) => outcome[1].raised

\* C3: for a completion A + [JSON_START] + J + [JSON_END] + T where J is a
\* JSON object, generate_financial_model returns (A trimmed, the value of J),
\* whatever T is.
C3_RoundTrip ==
    \A i \in 1..Len(sent) :
        (Parsed /\ WellFormedAt(i) /\ sent[i + 1] = "OBJ") =>
            outcome[1] = Returned([analysis |-> AnalysisPortion(i),
                                   structured_data |-> ChunkValue("OBJ")])

C3_Witness ==
    /\ pc = "done"
    /\ sent = <<"PROSE", "START", "OBJ", "END">>
    /\ outcome[1].raised = FALSE
    /\ outcome[1].val.analysis # Flatten(<<"PROSE">>)

\* C4: when both sentinels occur, the start before the end, and the trimmed
\* text between them is not valid JSON, the response is a 500 whose detail
\* holds the parse-failure message.
C4_MalformedJson500 ==
    (pc = "done" /\ full_response # None) =>
        LET t == full_response[1]
            s == PyFind(t, start_marker)
            e == PyFind(t, end_marker)
        IN  (/\ s >= 0
             /\ e >= s + Len(start_marker)
             /\ ~JsonLoads(PyStrip(Sub(t, s + Len(start_marker), e))).ok)
            => /\ response.status = 500
               /\ response.media = "json"
               /\ ParseFailurePrefix \in Range(response.detail)

C4_Witness ==
    /\ pc = "done"
    /\ sent = <<"START", "OBJ", "OBJ", "END">>
    /\ response.status = 500
    /\ response.detail = <<"500", ": ", ParseFailurePrefix, "Extra data">>

\* The only sources of a 500 with a JSON detail body: the provider raised, or
\* the parser did.
FailureOnlyFromProviderOrParse ==
    (pc = "done" /\ response.status = 500 /\ response.media = "json") =>
        \/ providerError # None
        \/ Parsed /\ extract_json_from_text(full_response[1]).raised

C6_ProviderError500 ==
    providerError # None =>
        /\ parserRuns = 0
        /\ outcome # None /\ outcome[1].raised
        /\ pc = "done" =>
               /\ response.status = 500
               /\ response.media = "json"
               /\ Range(providerError[1].msg) \subseteq Range(response.detail)

C6_Witness ==
    /\ pc = "done"
    /\ providerError # None
    /\ providerError[1].type = "RateLimitError"
    /\ response.detail = <<"Rate limit reached">>

\* C7 as stated: whenever existing_output and feedback are both non-null, the
\* user instruction holds both verbatim.
C7_BothNonNullVerbatim ==
    (messages # <<>> /\ existing_output # None /\ feedback # None) =>
        /\ ContainsPiece(UserPrompt, existing_output[1])
        /\ ContainsPiece(UserPrompt, feedback[1])

\* C8: for a request with only company_name set, the user instruction holds
\* the company name and neither the design clause nor the previous-model clause.
C8_BarePrompt ==
    (/\ messages # <<>>
     /\ request[1].previous_data = None
     /\ request[1].current_prompt_data = None) =>
        /\ request[1].company_name \in Range(UserPrompt)
        /\ DesignClause \notin Range(UserPrompt)
        /\ PreviousClause \notin Range(UserPrompt)

C8_Witness ==
    /\ pc = "call"
    /\ request[1] = [company_name |-> "Globex", previous_data |-> None,
                     current_prompt_data |-> None]
    /\ UserPrompt = <<PromptHead, "Globex", PromptTail>>

\* C9: the provider is called at most once per request; the call comes after
\* both prompts are built and before any parsing; once the request has failed
\* no further call is made.
C9_SingleCall ==
    /\ [](providerCalls <= 1)
    /\ [][providerCalls' # providerCalls =>
              /\ Len(messages) = 2
              /\ parserRuns = 0
              /\ parserRuns' = 0]_vars
    /\ [][(outcome # None /\ outcome[1].raised) =>
              providerCalls' = providerCalls]_vars

C9_Witness ==
    /\ pc = "done"
    /\ providerCalls = 1
    /\ parserRuns = 1
    /\ outcome[1].raised
    /\ response.status = 500

\* C10: when the first [JSON_END] of the text lies before the end of the first
\* [JSON_START], the parser fails with a parse error, even if a later
\* [JSON_END] closes a valid JSON segment.
C10_EndBeforeStartFails ==
    (Parsed /\ HasStart /\ HasEnd) =>
        LET t == full_response[1]
        IN  PyFind(t, end_marker) < PyFind(t, start_marker) + Len(start_marker)
            => /\ outcome[1].raised
               /\ ParseFailurePrefix \in Range(outcome[1].exc.msg)

C10_Witness ==
    /\ pc = "done"
    /\ sent = <<"END", "START", "OBJ", "END">>
    /\ response.status = 500
    /\ ParseFailurePrefix \in Range(response.detail)

====
